---- MODULE Spec2Model ----
(***************************************************************************)
(* speechbrain/nnet/CNN.py, class Conv: the mode dispatch of the           *)
(* constructor, the lazy initialisation on the first input, the padding    *)
(* arithmetic and the cut-off frequencies of the sinc filters.  Tensors    *)
(* are modelled by their shapes (sequences of positive integers), the      *)
(* tensor library's operators by their effect on shapes and by the shapes  *)
(* they reject.                                                            *)
(***************************************************************************)
EXTENDS Integers, Sequences, FiniteSets, TLC

\* ---------------------------------------------------------------- bounds
MaxKernel == 3
MaxDilation == 2
MaxOut == 2
MaxDim == 3
MaxInits == 1
BatchSize == 2

\* ------------------------------------------------------ program constants
sample_rate == 16000
min_low_hz == 50
min_band_hz == 50

\* ------------------------------------------------------------ input sets
Tuples(S, n) == [1..n -> S]

\* kernel_size as given by the caller: an int, or a tuple of 1 to 3 ints
KernelArgs ==
    {[is_int |-> TRUE, val |-> <<k>>] : k \in 1..MaxKernel}
    \cup {[is_int |-> FALSE, val |-> t] :
            t \in Tuples(1..MaxKernel, 1) \cup Tuples(1..MaxKernel, 2)}
    \cup {[is_int |-> FALSE, val |-> <<k, k, k>>] : k \in 2..MaxKernel}

\* stride, dilation and padding as given by the caller: the defaults
\* (1, 1), (1, 1), True; the defaults without padding; the documented forms
\* with one element per convolved axis; strides above 1.
ConvArgs ==
    {[stride |-> <<1, 1>>, dilation |-> <<1, 1>>, padding |-> pad] :
        pad \in BOOLEAN}
    \cup {[stride |-> <<1>>, dilation |-> <<d>>, padding |-> TRUE] :
            d \in 1..MaxDilation}
    \cup {[stride |-> <<1, 1>>, dilation |-> <<d, 1>>, padding |-> TRUE] :
            d \in 2..MaxDilation}
    \cup {[stride |-> <<1, 1>>, dilation |-> <<1, d>>, padding |-> TRUE] :
            d \in 2..MaxDilation}
    \cup {[stride |-> <<2, 1>>, dilation |-> <<1, 1>>, padding |-> TRUE]}

\* input tensors: batch first, ranks 1 to 5; every other dimension is
\* either degenerate (1) or of size MaxDim, and the time axis of a rank-4
\* input is of size MaxDim
DimValues == {1, MaxDim}
Shapes ==
    {<<BatchSize>>}
    \cup {<<BatchSize, t>> : t \in DimValues}
    \cup {<<BatchSize, t, c>> : t \in DimValues, c \in DimValues}
    \cup {<<BatchSize, MaxDim, f, c>> : f \in DimValues, c \in DimValues}
    \cup {<<BatchSize, MaxDim, MaxDim, MaxDim, MaxDim>>}

\* values an optimiser may leave in (low_hz_, band_hz_)
ParamPairs ==
    {<<-min_low_hz, 0>>, <<(sample_rate \div 2) - min_low_hz, 0>>}

\* ------------------------------------------------------- python helpers
Abs(v) == IF v < 0 THEN -v ELSE v

\* s[-1] and s[-2]
Last(s) == s[Len(s)]
Last2(s) == s[Len(s) - 1]

RECURSIVE Numel(_)
Numel(s) == IF s = <<>> THEN 1 ELSE Head(s) * Numel(Tail(s))

\* "fmt" % args with one %s in fmt: a tuple argument must have one element
PercentS(arg_is_tuple, arg_len) ==
    IF arg_is_tuple /\ arg_len # 1 THEN "TypeError" ELSE "ok"

\* "text" + v : a str can only be concatenated with a str
StrPlus(v_is_str) == IF v_is_str THEN "ok" ELSE "TypeError"

\* --------------------------------------------------------- _kernel_check
HasEven(ks) == \E i \in 1..Len(ks) : ks[i] % 2 = 0

\* The exception the odd-size check ends with (lines 135-140): the message
\* is formatted from the kernel tuple before ValueError is raised.
ParityRaise(ks) ==
    IF PercentS(TRUE, Len(ks)) = "ok" THEN "ValueError" ELSE "TypeError"

\* The exception the sinc/2d check ends with (lines 148-151): the message is
\* the concatenation of a str and len(kernel_size), an int.
Sinc2dRaise == IF StrPlus(FALSE) = "ok" THEN "ValueError" ELSE "TypeError"

Conv1dFlag(ks) == Len(ks) = 1
Conv2dFlag(ks) == Len(ks) = 2

\* [exc, site, kernel_size, conv1d, conv2d]
kernel_check(karg, sinc) ==
    LET ks == karg.val IN
    IF HasEven(ks)
    THEN [exc |-> ParityRaise(ks), site |-> "parity", kernel_size |-> ks,
          conv1d |-> FALSE, conv2d |-> FALSE]
    ELSE IF sinc /\ Conv2dFlag(ks)
    THEN [exc |-> Sinc2dRaise, site |-> "sinc2d", kernel_size |-> ks,
          conv1d |-> Conv1dFlag(ks), conv2d |-> TRUE]
    ELSE [exc |-> "none", site |-> "none", kernel_size |-> ks,
          conv1d |-> Conv1dFlag(ks), conv2d |-> Conv2dFlag(ks)]

\* ------------------------------------------------- tensor-library shapes
\* The result of a tensor operation: the shape it returns, or a raise.
Ok(s) == [ok |-> TRUE, s |-> s]
Raise == [ok |-> FALSE, s |-> <<>>]

\* x.transpose(1, -1)
Transpose1Last(s) ==
    IF Len(s) < 2 THEN Raise
    ELSE Ok([i \in 1..Len(s) |->
                IF i = 2 THEN s[Len(s)] ELSE IF i = Len(s) THEN s[2] ELSE s[i]])

\* x.reshape(or_shape[0], or_shape[1] * or_shape[2], or_shape[3])
ReshapeConv1d(s) ==
    IF Len(s) < 4 THEN Raise
    ELSE LET t == <<s[1], s[2] * s[3], s[4]>> IN
         IF Numel(t) = Numel(s) THEN Ok(t) ELSE Raise

\* x.unsqueeze(1)
Unsqueeze1(s) == <<s[1], 1>> \o SubSeq(s, 2, Len(s))

\* wx.squeeze(1): removes dimension 1 when its size is 1
Squeeze1(s) ==
    IF Len(s) >= 2 /\ s[2] = 1 THEN <<s[1]>> \o SubSeq(s, 3, Len(s)) ELSE s

\* wx.reshape(or_shape[0], wx.shape[1], wx.shape[2], wx.shape[3])
ReshapeBack(or_shape, s) ==
    IF Len(s) < 4 THEN Raise
    ELSE LET t == <<or_shape[1], s[2], s[3], s[4]>> IN
         IF Numel(t) = Numel(s) THEN Ok(t) ELSE Raise

\* nn.functional.pad(x, pad, mode="reflect"): the first pair pads the last
\* axis, the second pair the axis before it; a reflection needs each pad to
\* be shorter than the axis, and a batched 3d (one pair) or 4d (two pairs) x.
PadReflect(s, p) ==
    IF Len(p) = 2
    THEN IF Len(s) = 3 /\ p[1] < s[3] /\ p[2] < s[3]
         THEN Ok(<<s[1], s[2], s[3] + p[1] + p[2]>>) ELSE Raise
    ELSE IF Len(s) = 4 /\ p[1] < s[4] /\ p[2] < s[4]
                       /\ p[3] < s[3] /\ p[4] < s[3]
         THEN Ok(<<s[1], s[2], s[3] + p[3] + p[4], s[4] + p[1] + p[2]>>)
         ELSE Raise

\* output length of a convolution along one axis (no padding of its own)
ConvLen(L, k, st, d) == ((L - d * (k - 1) - 1) \div st) + 1
ConvFits(L, k, d) == L - d * (k - 1) - 1 >= 0

NoConv == [kind |-> "none", in_channels |-> 0, out_channels |-> 0,
           kernel_size |-> <<>>, stride |-> <<>>, dilation |-> <<>>]

\* self.conv(x) for the nn.Conv1d / nn.Conv2d built by init_params
ApplyConv(c, s) ==
    IF c.kind = "Conv1d"
    THEN IF Len(s) = 3 /\ s[2] = c.in_channels
            /\ ConvFits(s[3], c.kernel_size[1], c.dilation[1])
         THEN Ok(<<s[1], c.out_channels,
                   ConvLen(s[3], c.kernel_size[1], c.stride[1], c.dilation[1])>>)
         ELSE Raise
    ELSE IF c.kind = "Conv2d"
    THEN IF Len(s) = 4 /\ s[2] = c.in_channels
            /\ ConvFits(s[3], c.kernel_size[1], c.dilation[1])
            /\ ConvFits(s[4], c.kernel_size[2], c.dilation[2])
         THEN Ok(<<s[1], c.out_channels,
                   ConvLen(s[3], c.kernel_size[1], c.stride[1], c.dilation[1]),
                   ConvLen(s[4], c.kernel_size[2], c.stride[2], c.dilation[2])>>)
         ELSE Raise
    ELSE Raise

\* F.conv1d(x, sinc_filters, stride[0], dilation[0], groups=1): the filters
\* have shape [out_channels, 1, kernel_size[0]]
ApplySincConv(s, out, k, st, d) ==
    IF Len(s) = 3 /\ s[2] = 1 /\ ConvFits(s[3], k, d)
    THEN Ok(<<s[1], out, ConvLen(s[3], k, st, d)>>)
    ELSE Raise

\* ------------------------------------------------------------- padding
\* int(v / stride) for stride > 0, truncating towards zero
IntTrunc(v, st) == IF v >= 0 THEN v \div st ELSE -((-v) \div st)

\* a padding that forgets the dilation
get_padding_elem_no_dilation(L_in, st, kernel, d) ==
    IF st > 1
    THEN <<kernel \div 2, kernel \div 2>>
    ELSE LET L_out == IntTrunc((L_in - (kernel - 1) - 1) + st, st)
         IN  <<(L_in - L_out) \div 2, (L_in - L_out) \div 2>>

get_padding_elem(L_in, st, kernel, d) ==
    IF st > 1
    THEN <<kernel \div 2, kernel \div 2>>
    ELSE LET L_out == IntTrunc((L_in - d * (kernel - 1) - 1) + st, st)
         IN  <<(L_in - L_out) \div 2, (L_in - L_out) \div 2>>

\* The list handed to nn.functional.pad, <<>> when an index is out of range
manage_padding(s, ks, dil, st, is2d) ==
    LET L_in == Last(s)
        time == get_padding_elem(L_in, Last(st), Last(ks), Last(dil))
    IN  IF Len(ks) < 1 THEN <<>>
        ELSE IF ~is2d THEN time
        ELSE IF Len(st) < 2 \/ Len(ks) < 2 \/ Len(dil) < 2 THEN <<>>
        ELSE time \o get_padding_elem(L_in, Last2(st), Last2(ks), Last2(dil))

\* ---------------------------------------------------------- sinc filters
Clamp(v, lo, hi) == IF v < lo THEN lo ELSE IF v > hi THEN hi ELSE v

\* low, high and band of one filter, from its two learnable parameters
sinc_low(lo_p) == min_low_hz + Abs(lo_p)
sinc_high(lo_p, band_p) ==
    Clamp(sinc_low(lo_p) + min_band_hz + Abs(band_p),
          min_low_hz, sample_rate \div 2)
sinc_band(lo_p, band_p) == sinc_high(lo_p, band_p) - sinc_low(lo_p)

\* The mel-spaced grid hz of _init_sinc_conv, to_hz(linspace(to_mel(lo),
\* to_mel(hi), out_channels + 1)): it starts at min_low_hz and ends at
\* high_hz; to_hz of the mean of two mels is the geometric mean of the two
\* 700 + hz, less 700, which is the middle grid point.
high_hz == (sample_rate \div 2) - (min_low_hz + min_band_hz)
MelMid(lo, hi) ==
    LET r == CHOOSE q \in 700..(700 + hi) :
                q * q <= (700 + lo) * (700 + hi)
                /\ (q + 1) * (q + 1) > (700 + lo) * (700 + hi)
    IN  r - 700
mel_mid == MelMid(min_low_hz, high_hz)
\* (hz[i], hz[i+1]) of the filter followed: the only filter when there is
\* one, else the lower or the upper half of the grid (the two filters when
\* there are two; with more filters a half stands for the filters in it)
MelPairs(out) ==
    IF out = 1 THEN {<<min_low_hz, high_hz>>}
    ELSE {<<min_low_hz, mel_mid>>, <<mel_mid, high_hz>>}

\* ------------------------------------------------------------------ state
VARIABLES
    live,            \* the constructor returned an object
    out_channels, kernel_size, stride, dilation, padding, sinc_conv,
    conv1d, conv2d, reshape_conv1d, unsqueeze,
    in_channels,     \* 0 until init_params sets the attribute
    conv,            \* self.conv, NoConv until init_params builds it
    sinc_ready,      \* low_hz_, band_hz_, window_ and n_ exist
    low_hz_, band_hz_,   \* the two learnable parameters of one sinc filter
    inits,           \* forward calls with init_params=True so far
    call,            \* the last operation and its arguments
    res              \* what the last operation raised, computed and returned

vars == <<live, out_channels, kernel_size, stride, dilation, padding, sinc_conv,
          conv1d, conv2d, reshape_conv1d, unsqueeze, in_channels, conv,
          sinc_ready, low_hz_, band_hz_, inits, call, res>>

NoKernel == [is_int |-> FALSE, val |-> <<>>]
NoRes == [exc |-> "none", site |-> "none", init_kind |-> "none",
          raised |-> FALSE, pre_pad |-> <<>>, pad |-> <<>>, conv_out |-> <<>>,
          out |-> <<>>, filters |-> FALSE, low |-> 0, high |-> 0, band |-> 0]

Init ==
    /\ live = FALSE
    /\ out_channels = 0 /\ kernel_size = <<>> /\ stride = <<>> /\ dilation = <<>>
    /\ padding = FALSE /\ sinc_conv = FALSE
    /\ conv1d = FALSE /\ conv2d = FALSE
    /\ reshape_conv1d = FALSE /\ unsqueeze = FALSE
    /\ in_channels = 0 /\ conv = NoConv
    /\ sinc_ready = FALSE /\ low_hz_ = 0 /\ band_hz_ = 0
    /\ inits = 0
    /\ call = [op |-> "none", init_params |-> FALSE, kernel_arg |-> NoKernel,
               sinc_arg |-> FALSE, x |-> <<>>]
    /\ res = NoRes

\* --------------------------------------------------------------- __init__
\* Conv(out_channels, kernel_size, stride, dilation, padding, sinc_conv=...);
\* a behaviour follows the one object this call makes.
Construct(out, karg, cargs, sinc) ==
    LET k == kernel_check(karg, sinc)
        made == k.exc = "none"
    IN  /\ call.op = "none"
        /\ live' = made
        /\ out_channels' = IF made THEN out ELSE 0
        /\ kernel_size' = IF made THEN k.kernel_size ELSE <<>>
        /\ stride' = IF made THEN cargs.stride ELSE <<>>
        /\ dilation' = IF made THEN cargs.dilation ELSE <<>>
        /\ padding' = (made /\ cargs.padding)
        /\ sinc_conv' = (made /\ sinc)
        /\ conv1d' = (made /\ k.conv1d)
        /\ conv2d' = (made /\ k.conv2d)
        /\ reshape_conv1d' = FALSE
        /\ unsqueeze' = FALSE
        /\ in_channels' = 0
        /\ conv' = NoConv
        /\ sinc_ready' = FALSE /\ low_hz_' = 0 /\ band_hz_' = 0
        /\ inits' = 0
        /\ call' = [op |-> "construct", init_params |-> FALSE,
                    kernel_arg |-> karg, sinc_arg |-> sinc, x |-> <<>>]
        /\ res' = [NoRes EXCEPT !.exc = k.exc, !.site = k.site,
                                !.raised = ~made]

\* ------------------------------------------------------------ init_params
\* a channel count read from the time axis
InChannels1d_time_axis(x) ==
    IF Len(x) = 2 THEN 1
    ELSE IF Len(x) = 3 THEN x[2]
    ELSE x[2] * x[3]

InChannels1d(x) ==
    IF Len(x) = 2 THEN 1
    ELSE IF Len(x) = 3 THEN x[3]
    ELSE x[3] * x[4]
Unsqueeze1d(x) == Len(x) = 2
Reshape1d(x) == Len(x) = 4

InChannels2d(x) == IF Len(x) = 3 THEN 1 ELSE x[4]
Unsqueeze2d(x) == Len(x) = 3

\* (k[1], k[0])
Swap(t) == <<t[2], t[1]>>

\* The attributes as they stand, a record the initialisers update
Attrs ==
    [raised |-> FALSE, init_kind |-> "none",
     in_channels |-> in_channels, unsqueeze |-> unsqueeze,
     reshape_conv1d |-> reshape_conv1d, kernel_size |-> kernel_size,
     stride |-> stride, dilation |-> dilation, conv |-> conv,
     sinc_ready |-> sinc_ready, low_hz_ |-> low_hz_, band_hz_ |-> band_hz_]

init_conv1d(x) ==
    IF Len(x) = 1 \/ Len(x) > 4
    THEN [Attrs EXCEPT !.raised = TRUE, !.init_kind = "conv1d"]
    ELSE [Attrs EXCEPT
            !.init_kind = "conv1d",
            !.unsqueeze = (unsqueeze \/ Unsqueeze1d(x)),
            !.reshape_conv1d = (reshape_conv1d \/ Reshape1d(x)),
            !.in_channels = InChannels1d(x),
            !.conv = [kind |-> "Conv1d", in_channels |-> InChannels1d(x),
                      out_channels |-> out_channels,
                      kernel_size |-> <<kernel_size[1]>>,
                      stride |-> <<stride[1]>>,
                      dilation |-> <<dilation[1]>>]]

\* g is the pair of adjacent mel-grid points the filter is initialised from
init_sinc_conv(x, g) ==
    LET a == init_conv1d(x) IN
    IF a.raised THEN [a EXCEPT !.init_kind = "sinc"]
    ELSE [a EXCEPT !.init_kind = "sinc", !.sinc_ready = TRUE,
                   !.low_hz_ = g[1], !.band_hz_ = g[2] - g[1]]

init_conv2d(x) ==
    IF Len(x) <= 2 \/ Len(x) > 4
    THEN [Attrs EXCEPT !.raised = TRUE, !.init_kind = "conv2d"]
    ELSE LET a == [Attrs EXCEPT
                     !.init_kind = "conv2d",
                     !.unsqueeze = (unsqueeze \/ Unsqueeze2d(x)),
                     !.in_channels = InChannels2d(x),
                     !.kernel_size = Swap(kernel_size)]
         IN  IF Len(stride) < 2 THEN [a EXCEPT !.raised = TRUE]
             ELSE IF Len(dilation) < 2
             THEN [a EXCEPT !.raised = TRUE, !.stride = Swap(stride)]
             ELSE [a EXCEPT
                     !.stride = Swap(stride),
                     !.dilation = Swap(dilation),
                     !.conv = [kind |-> "Conv2d",
                               in_channels |-> InChannels2d(x),
                               out_channels |-> out_channels,
                               kernel_size |-> Swap(kernel_size),
                               stride |-> Swap(stride),
                               dilation |-> Swap(dilation)]]

init_params(x, g) ==
    IF conv1d
    THEN IF sinc_conv THEN init_sinc_conv(x, g) ELSE init_conv1d(x)
    ELSE IF conv2d THEN init_conv2d(x)
    ELSE Attrs

\* ----------------------------------------------------------------- forward
\* The tensor part of forward, lines 312-350, under the attributes a that
\* init_params left (or found): the record of what was computed.
forward_run(x, a) ==
    LET t1 == Transpose1Last(x)
        t2 == IF ~t1.ok THEN Raise
              ELSE IF a.reshape_conv1d THEN ReshapeConv1d(t1.s) ELSE t1
        t3 == IF ~t2.ok THEN Raise
              ELSE IF a.unsqueeze THEN Ok(Unsqueeze1(t2.s)) ELSE t2
        p  == IF t3.ok /\ padding
              THEN manage_padding(t3.s, a.kernel_size, a.dilation, a.stride,
                                  conv2d)
              ELSE <<>>
        t4 == IF ~t3.ok THEN Raise
              ELSE IF ~padding THEN t3
              ELSE IF p = <<>> THEN Raise
              ELSE PadReflect(t3.s, p)
        filt == t4.ok /\ sinc_conv /\ a.sinc_ready
        t5 == IF ~t4.ok THEN Raise
              ELSE IF sinc_conv
              THEN IF a.sinc_ready /\ Len(a.kernel_size) >= 1
                      /\ Len(a.stride) >= 1 /\ Len(a.dilation) >= 1
                   THEN ApplySincConv(t4.s, out_channels, a.kernel_size[1],
                                      a.stride[1], a.dilation[1])
                   ELSE Raise
              ELSE ApplyConv(a.conv, t4.s)
        t6 == IF ~t5.ok THEN Raise
              ELSE IF a.unsqueeze THEN Ok(Squeeze1(t5.s)) ELSE t5
        t7 == IF ~t6.ok THEN Raise
              ELSE IF a.reshape_conv1d THEN ReshapeBack(t1.s, t6.s) ELSE t6
        t8 == IF ~t7.ok THEN Raise ELSE Transpose1Last(t7.s)
    IN  [NoRes EXCEPT
            !.init_kind = a.init_kind,
            !.raised = ~t8.ok,
            !.pre_pad = IF p # <<>> THEN t3.s ELSE <<>>,
            !.pad = p,
            !.conv_out = t5.s,
            !.out = t8.s,
            !.filters = filt,
            !.low = IF filt THEN sinc_low(a.low_hz_) ELSE 0,
            !.high = IF filt THEN sinc_high(a.low_hz_, a.band_hz_) ELSE 0,
            !.band = IF filt THEN sinc_band(a.low_hz_, a.band_hz_) ELSE 0]

\* whether forward runs init_params first
RunsInit(flag) == flag

forward(x, flag, g) ==
    LET a == IF RunsInit(flag) THEN init_params(x, g) ELSE Attrs
        r == IF a.raised
             THEN [NoRes EXCEPT !.raised = TRUE, !.init_kind = a.init_kind]
             ELSE forward_run(x, a)
    IN  /\ live
        /\ in_channels' = a.in_channels
        /\ unsqueeze' = a.unsqueeze
        /\ reshape_conv1d' = a.reshape_conv1d
        /\ kernel_size' = a.kernel_size
        /\ stride' = a.stride
        /\ dilation' = a.dilation
        /\ conv' = a.conv
        /\ sinc_ready' = a.sinc_ready
        /\ low_hz_' = a.low_hz_
        /\ band_hz_' = a.band_hz_
        /\ inits' = IF flag THEN inits + 1 ELSE inits
        /\ call' = [op |-> "forward", init_params |-> flag,
                    kernel_arg |-> NoKernel, sinc_arg |-> FALSE, x |-> x]
        /\ res' = r
        /\ UNCHANGED <<live, out_channels, padding, sinc_conv, conv1d, conv2d>>

\* layer(x, init_params=True)
ForwardInit(x) ==
    /\ inits < MaxInits
    /\ \E g \in (IF conv1d /\ sinc_conv THEN MelPairs(out_channels)
                 ELSE {<<0, 0>>}) :
          forward(x, TRUE, g)

\* layer(x)
Forward(x) == forward(x, FALSE, <<0, 0>>)

\* A training step: the optimiser rewrites the learnable parameters.
OptimizerStep(lo, bw) ==
    /\ live /\ sinc_ready
    /\ low_hz_' = lo
    /\ band_hz_' = bw
    /\ call' = [op |-> "optimizer", init_params |-> FALSE,
                kernel_arg |-> NoKernel, sinc_arg |-> FALSE, x |-> <<>>]
    /\ res' = NoRes
    /\ UNCHANGED <<live, out_channels, kernel_size, stride, dilation, padding,
                   sinc_conv, conv1d, conv2d, reshape_conv1d, unsqueeze,
                   in_channels, conv, sinc_ready, inits>>

Next ==
    \/ \E out \in 1..MaxOut, karg \in KernelArgs, cargs \in ConvArgs,
          sinc \in BOOLEAN :
          Construct(out, karg, cargs, sinc)
    \/ \E x \in Shapes : ForwardInit(x)
    \/ \E x \in Shapes : Forward(x)
    \/ \E p \in ParamPairs : OptimizerStep(p[1], p[2])

Spec == Init /\ [][Next]_vars

\* ----------------------------------------------------------------- claims
IsConstruct == call.op = "construct"
IsForward == call.op = "forward"
IsForwardInit == call.op = "forward" /\ call.init_params

Mode1d == conv1d /\ ~sinc_conv
ModeSinc == conv1d /\ sinc_conv
Mode2d == conv2d
ModeCount ==
    (IF Mode1d THEN 1 ELSE 0) + (IF ModeSinc THEN 1 ELSE 0)
    + (IF Mode2d THEN 1 ELSE 0)

AllOnes(t) == \A i \in 1..Len(t) : t[i] = 1

\* stride and dilation in the form the class documents: one element per
\* convolved axis, or the default (1, 1)
DocumentedForm ==
    /\ Len(stride) = Len(kernel_size) \/ stride = <<1, 1>>
    /\ Len(dilation) = Len(kernel_size) \/ dilation = <<1, 1>>

\* C1: every kernel_size the constructor accepts selects exactly one of the
\* three modes (1D, sinc, 2D), and init_params runs that mode's initialiser.
C1_OneModeSelected ==
    live =>
        /\ ModeCount = 1
        /\ IsForwardInit =>
              res.init_kind = (IF Mode1d THEN "conv1d"
                               ELSE IF ModeSinc THEN "sinc" ELSE "conv2d")

C3_ChannelsLastOutput ==
    (IsForwardInit /\ padding /\ AllOnes(stride) /\ DocumentedForm
       /\ ~res.raised) =>
        /\ (conv1d /\ Len(call.x) \in {2, 3}) =>
              res.out = <<call.x[1], call.x[2], out_channels>>
        /\ (conv2d /\ Len(call.x) \in {3, 4}) =>
              res.out = <<call.x[1], call.x[2], call.x[3], out_channels>>

\* C4: the first forward call with init_params=True sets in_channels,
\* unsqueeze and reshape_conv1d from the rank and the dimensions of the
\* input, and a forward call with init_params=False changes none of
\* in_channels, unsqueeze, reshape_conv1d, kernel_size, stride, dilation.
FirstInitStep ==
    /\ call'.op = "forward" /\ call'.init_params /\ inits = 0 /\ inits' = 1
LaterForwardStep ==
    /\ call'.op = "forward" /\ ~call'.init_params
InferredFromInput(x) ==
    /\ (conv1d /\ Len(x) = 2) => in_channels' = 1 /\ unsqueeze'
    /\ (conv1d /\ Len(x) = 3) => in_channels' = x[3]
    /\ (conv1d /\ Len(x) = 4) => in_channels' = x[3] * x[4] /\ reshape_conv1d'
    /\ (conv2d /\ Len(x) = 3) => in_channels' = 1 /\ unsqueeze'
    /\ (conv2d /\ Len(x) = 4) => in_channels' = x[4]
C4_LazyInference ==
    [][/\ FirstInitStep => InferredFromInput(call'.x)
       /\ LaterForwardStep =>
             UNCHANGED <<in_channels, unsqueeze, reshape_conv1d, kernel_size,
                         stride, dilation>>]_vars

\* a later forward call returned on a 2D layer whose first input had rank 4
\* and more than one channel
C4_Witness ==
    /\ IsForward /\ ~call.init_params /\ inits = 1 /\ conv2d
    /\ in_channels = MaxDim /\ ~unsqueeze /\ ~res.raised

\* C5: a kernel_size with an even element makes the constructor raise
\* ValueError and no layer is obtained; with all elements odd the odd-size
\* check raises nothing.
C5_OddKernelEnforced ==
    IsConstruct =>
        IF HasEven(call.kernel_arg.val)
        THEN res.exc = "ValueError" /\ ~live
        ELSE res.site # "parity"

\* C6: sinc_conv=True with a two-element odd kernel_size makes the
\* constructor raise ValueError, and no sinc layer with a 2D kernel exists.
C6_Sinc2dValueError ==
    /\ (IsConstruct /\ call.sinc_arg /\ Len(call.kernel_arg.val) = 2
          /\ ~HasEven(call.kernel_arg.val)) =>
            res.exc = "ValueError" /\ ~live
    /\ ~(live /\ sinc_conv /\ conv2d)

\* C7: whatever low_hz_ and band_hz_ hold, the filters have
\* low >= min_low_hz, high <= sample_rate / 2 and band >= min_band_hz.
C7_BandAtLeastMin ==
    res.filters =>
        /\ res.low >= min_low_hz
        /\ res.high <= sample_rate \div 2
        /\ res.band >= min_band_hz

====
